---------------------------- MODULE Spec2Model ----------------------------
(***************************************************************************)
(* A model of the frequency-domain array-processing routines of           *)
(* WATCtools.py (ft, ift, co_array, bpf, psf) and of                        *)
(* array_processing/algorithms/fk_freq.py (fk_freq).                        *)
(*                                                                         *)
(* Numbers.  The routines compute with complex floating-point numbers.     *)
(* The model computes exactly, in the cyclotomic field Q(zeta), zeta =     *)
(* exp(2 pi i / 12): a number is <<a0, a1, a2, a3, q>>, standing for       *)
(* (a0 + a1 zeta + a2 zeta^2 + a3 zeta^3) / q with q > 0 and the five      *)
(* integers coprime.  zeta^4 = zeta^2 - 1.  Every twiddle factor of a      *)
(* discrete Fourier transform whose length divides 12 is a power of zeta,  *)
(* so the transforms of lengths 1, 2, 3, 4 (both parities) are exact.      *)
(* q = 0 stands for a non-finite value: <<0,0,0,0,0>> is NaN (0/0).        *)
(* Rounding error of the floating-point arithmetic is not modelled.        *)
(***************************************************************************)
EXTENDS Integers, Sequences, FiniteSets, TLC

\* ------------------------------------------------------------ bounds ----
\* a time-series matrix has at most MaxCells entries
MaxCells == 8
\* band corners of bpf are k / BandDen, k in 0..BandDen
BandDen == 3
\* psf: smoothing width w in 1..MaxWidth, passes n in 0..MaxPasses
MaxWidth == 3
MaxPasses == 1
\* sensor coordinates lie in 0..MaxCoord, at most MaxSensors sensors
MaxCoord == 1
MaxSensors == 3
\* fk_freq: fmin and fmax in 0..MaxFreq, nvel and ntheta in 1..MaxGrid
MaxFreq == 3
MaxGrid == 1

\* the samples of a time series
SampleValues == {0, 1}
\* sample counts for which the transform is exact in Q(zeta): divisors of 12
SampleCounts == {1, 2, 3, 4, 6}
\* channel counts of a time-series matrix
ChannelCounts == {1, 2, 3}
\* coordinate dimensions of a sensor geometry
CoordDims == {1, 2}
\* the contrast exponents p of psf; the coherence estimate does not depend
\* on p, and P**2 after two passes has denominators beyond 32 bits
Contrasts == {1}
\* sample rates of fk_freq
SampleRates == {2, 8, 16}

\* ------------------------------------------------------- arithmetic ----
Abs(n) == IF n < 0 THEN -n ELSE n

\* a sequence given by a rule, evaluated once into a tuple
Tup(s) == s \o <<>>

RECURSIVE GCD(_, _)
GCD(a, b) == IF b = 0 THEN Abs(a) ELSE GCD(b, a % b)

NaN == <<0, 0, 0, 0, 0>>

IsFinite(z) == z[5] # 0

DivAll(z, g) ==
    <<z[1] \div g, z[2] \div g, z[3] \div g, z[4] \div g, z[5] \div g>>

\* the canonical form of a number: lowest terms, positive denominator.  The
\* arithmetic below does not reduce its results; every value a routine
\* returns is put in canonical form, so that equal numbers are equal tuples.
Canon(z) ==
    IF z[5] = 0 THEN NaN
    ELSE IF z[5] = 1 THEN z
    ELSE IF z[1] = 0 /\ z[2] = 0 /\ z[3] = 0 /\ z[4] = 0 THEN <<0, 0, 0, 0, 1>>
    ELSE DivAll(z, (IF z[5] < 0 THEN -1 ELSE 1) *
                   GCD(GCD(GCD(Abs(z[1]), Abs(z[2])),
                           GCD(Abs(z[3]), Abs(z[4]))), Abs(z[5])))

Num(n) == <<n, 0, 0, 0, 1>>

Rat(n, q) == Canon(<<n, 0, 0, 0, q>>)

IsRational(z) == IsFinite(z) /\ z[2] = 0 /\ z[3] = 0 /\ z[4] = 0

\* u + v over the least common denominator
AddOver(u, v, a, b) ==
    <<u[1]*a + v[1]*b, u[2]*a + v[2]*b, u[3]*a + v[3]*b, u[4]*a + v[4]*b,
      u[5]*a>>

AddByGcd(u, v, g) == AddOver(u, v, v[5] \div g, u[5] \div g)

CxAdd(u, v) ==
    IF ~IsFinite(u) \/ ~IsFinite(v) THEN NaN
    ELSE IF u[5] = v[5]
    THEN <<u[1] + v[1], u[2] + v[2], u[3] + v[3], u[4] + v[4], u[5]>>
    ELSE AddByGcd(u, v, GCD(u[5], v[5]))

CxNeg(u) == IF ~IsFinite(u) THEN NaN ELSE <<-u[1], -u[2], -u[3], -u[4], u[5]>>

CxSub(u, v) == CxAdd(u, CxNeg(v))

\* product of two polynomials in zeta, reduced by zeta^4 = zeta^2 - 1:
\* with c0..c6 the coefficients of the plain product, the result is
\* <<c0 - c4 - c6, c1 - c5, c2 + c4, c3 + c5>>
CxMul(u, v) ==
    IF ~IsFinite(u) \/ ~IsFinite(v) THEN NaN
    ELSE IF v[2] = 0 /\ v[3] = 0 /\ v[4] = 0
    THEN <<u[1]*v[1], u[2]*v[1], u[3]*v[1], u[4]*v[1], u[5]*v[5]>>
    ELSE <<u[1]*v[1] - (u[2]*v[4] + u[3]*v[3] + u[4]*v[2]) - u[4]*v[4],
           (u[1]*v[2] + u[2]*v[1]) - (u[3]*v[4] + u[4]*v[3]),
           (u[1]*v[3] + u[2]*v[2] + u[3]*v[1])
               + (u[2]*v[4] + u[3]*v[3] + u[4]*v[2]),
           (u[1]*v[4] + u[2]*v[3] + u[3]*v[2] + u[4]*v[1])
               + (u[3]*v[4] + u[4]*v[3]),
           u[5]*v[5]>>

\* complex conjugate: zeta -> zeta^11 = zeta - zeta^3
CxConj(u) ==
    IF ~IsFinite(u) THEN NaN
    ELSE <<u[1] + u[3], u[2], -u[3], -u[2] - u[4], u[5]>>

\* numpy.real: (u + conj u) / 2
CxReal(u) ==
    IF ~IsFinite(u) THEN NaN
    ELSE <<2*u[1] + u[3], 2*u[2], 0, -u[2], 2*u[5]>>

\* u / v for a rational divisor v, in canonical form; x/0 is not finite.
\* The common factor g of the two denominators is cancelled first.
DivByGcd(u, v, g) ==
    Canon(<<u[1] * (v[5] \div g), u[2] * (v[5] \div g), u[3] * (v[5] \div g),
            u[4] * (v[5] \div g), (u[5] \div g) * v[1]>>)

CxDiv(u, v) ==
    IF ~IsFinite(u) \/ ~IsFinite(v) THEN NaN
    ELSE IF v[1] = 0 THEN NaN
    ELSE DivByGcd(u, v, GCD(u[5], v[5]))

RECURSIVE CxPow(_, _)
CxPow(u, p) == IF p = 0 THEN Num(1) ELSE CxMul(u, CxPow(u, p - 1))

\* zeta^k
Zeta(k) ==
    LET r == k % 12
        b == IF r % 6 = 0 THEN <<1, 0, 0, 0>>
             ELSE IF r % 6 = 1 THEN <<0, 1, 0, 0>>
             ELSE IF r % 6 = 2 THEN <<0, 0, 1, 0>>
             ELSE IF r % 6 = 3 THEN <<0, 0, 0, 1>>
             ELSE IF r % 6 = 4 THEN <<-1, 0, 1, 0>>
             ELSE <<0, -1, 0, 1>>
        s == IF r < 6 THEN 1 ELSE -1
    IN  <<s*b[1], s*b[2], s*b[3], s*b[4], 1>>

RECURSIVE CxSum(_)
CxSum(s) == IF s = <<>> THEN Num(0) ELSE CxAdd(Head(s), CxSum(Tail(s)))

\* ---------------------------------------------------------- matrices ----
\* A matrix is a sequence of rows, each a sequence of numbers; shape (N, d).
Shape(m) == <<Len(m), IF Len(m) = 0 THEN 0 ELSE Len(m[1])>>

Transpose(m) ==
    Tup([c \in 1..Shape(m)[2] |-> Tup([r \in 1..Shape(m)[1] |-> m[r][c]])])

MapMatrix(m, F(_)) ==
    Tup([r \in 1..Len(m) |-> Tup([c \in 1..Len(m[r]) |-> F(m[r][c])])])

\* every entry of a matrix in canonical form
CanonMatrix(m) == MapMatrix(m, Canon)

\* a length argument of 0 stands for None
None == 0

\* numpy.fft crops or zero-pads the transformed axis to n samples
Resize(v, n) ==
    IF n = None THEN v
    ELSE Tup([i \in 1..n |-> IF i <= Len(v) THEN v[i] ELSE Num(0)])

\* out[k] = sum_m v[m] exp(sign 2 pi i m k / L), L = Len(v) a divisor of 12
DFT(v, sign) ==
    LET L == Len(v)
    IN  Tup([k \in 1..L |->
            CxSum(Tup([m \in 1..L |->
                      CxMul(v[m], Zeta(sign * (12 \div L) * (m-1) * (k-1)))]))])

\* numpy.fft.fft(x, n, axis), norm = None
fft(x, n, axis) ==
    IF axis = 0
    THEN Transpose(Tup([c \in 1..Shape(x)[2] |-> DFT(Resize(Transpose(x)[c], n), -1)]))
    ELSE Tup([r \in 1..Len(x) |-> DFT(Resize(x[r], n), -1)])

\* numpy.fft.ifft(X, n, axis), norm = None: the inverse sum divided by the
\* length of the transformed axis
ifftRow(v) ==
    LET w == DFT(v, 1)
    IN  Tup([k \in 1..Len(w) |-> CxDiv(w[k], Num(Len(w)))])

ifft(X, n, axis) ==
    IF axis = 0
    THEN Transpose(Tup([c \in 1..Shape(X)[2] |-> ifftRow(Resize(Transpose(X)[c], n))]))
    ELSE Tup([r \in 1..Len(X) |-> ifftRow(Resize(X[r], n))])

\* WATCtools.ft: fft(x, n, axis)/N[axis] with N = x.shape

ftDivisor(x, n, axis) == Shape(x)[axis + 1]

ft(x, n, axis) ==
    LET D == Num(ftDivisor(x, n, axis))
        Q(z) == CxDiv(z, D)
    IN  MapMatrix(fft(x, n, axis), Q)

\* WATCtools.ift: ifft(X, n, axis)*N[axis] with N = X.shape, real part
\* unless allowComplex

\* a factor taken along the first axis whatever the axis of the transform
iftFactorFirstAxis(X, n, axis) == Shape(X)[1]

iftFactor(X, n, axis) == Shape(X)[axis + 1]

ift(X, n, axis, allowComplex) ==
    LET D == Num(iftFactor(X, n, axis))
        Q(z) == Canon(CxMul(z, D))
        R(z) == Canon(CxReal(CxMul(z, D)))
    IN  IF allowComplex THEN MapMatrix(ifft(X, n, axis), Q)
        ELSE MapMatrix(ifft(X, n, axis), R)


\* ---------------------------------------------------------- co_array ----
\* the list comprehension [(i, j) for i in range(n-1) for j in range(i+1, n)]
RECURSIVE PairsFrom(_, _, _)
PairsFrom(i, j, n) ==
    IF i >= n - 1 THEN <<>>
    ELSE IF j >= n THEN PairsFrom(i + 1, i + 2, n)
    ELSE <<<<i, j>>>> \o PairsFrom(i, j + 1, n)

coPairs(n) == PairsFrom(0, 1, n)

\* the difference taken the other way round: column b minus column a
coDiffSwapped(r, a, b) == Canon(CxSub(r[b + 1], r[a + 1]))

\* one entry of the co-array: column a minus column b of row r
coDiff(r, a, b) == Canon(CxSub(r[a + 1], r[b + 1]))

\* WATCtools.co_array: rij[:, [i...]] - rij[:, [j...]]
co_array(r) ==
    LET idx == coPairs(Shape(r)[2])
    IN  Tup([k \in 1..Len(r) |->
            Tup([c \in 1..Len(idx) |-> coDiff(r[k], idx[c][1], idx[c][2])])])

\* --------------------------------------------------------------- bpf ----
\* numpy.round of num/den (den > 0): to the nearest integer, halves to even
RoundHalfEven(num, den) ==
    LET f == num \div den
        r == num - f * den
    IN  IF 2 * r < den THEN f
        ELSE IF 2 * r > den THEN f + 1
        ELSE IF f % 2 = 0 THEN f ELSE f + 1

\* Python's range(a, b) as a sequence
Range(a, b) == Tup([i \in 1..(IF b > a THEN b - a ELSE 0) |-> a + i - 1])

\* band.sort() on a two-element band of numerators over BandDen
SortBand(band) ==
    IF band[1] <= band[2] THEN band ELSE <<band[2], band[1]>>

\* the band scaled by (N-1)/2 whatever the parity of N
bpfBandOddScale(N, band) ==
    <<RoundHalfEven(SortBand(band)[1] * (N - 1), 2 * BandDen),
      RoundHalfEven(SortBand(band)[2] * (N - 1), 2 * BandDen)>>

\* the sorted band converted to integer bin indices
bpfBand(N, band) ==
    LET b == SortBand(band)
    IN  IF N % 2 = 1
        THEN <<RoundHalfEven(b[1] * (N - 1), 2 * BandDen),
               RoundHalfEven(b[2] * (N - 1), 2 * BandDen)>>
        ELSE <<RoundHalfEven(b[1] * N, 2 * BandDen),
               RoundHalfEven(b[2] * N, 2 * BandDen)>>

\* the corners with the odd-N mirror index used for every N
bpfCornersOddMirror(N, band) ==
    <<bpfBand(N, band)[1], bpfBand(N, band)[2],
      2 * ((N + 1) \div 2) - bpfBand(N, band)[2] - 1, N - bpfBand(N, band)[1]>>

\* idx_one: the corner indices in positive and in negative frequencies
bpfCorners(N, band) ==
    LET b == bpfBand(N, band)
        Nyq == IF N % 2 = 1 THEN (N + 1) \div 2 ELSE N \div 2
        idx_temp == IF N % 2 = 1 THEN 2 * Nyq - b[2] ELSE 2 * Nyq - b[2] + 1
    IN  <<b[1], b[2], idx_temp - 1, N - b[1] + 1 - 1>>

\* a mask whose middle range starts at the upper corner itself
bpfMaskFromCorner(N, band) ==
    Range(0, bpfCorners(N, band)[1])
        \o Range(bpfCorners(N, band)[2], bpfCorners(N, band)[3])
        \o Range(bpfCorners(N, band)[4] + 1, N)

\* idxx: the bins set to zero, as 0-based row indices
bpfMask(N, band) ==
    LET c == bpfCorners(N, band)
    IN  Range(0, c[1]) \o Range(c[2] + 1, c[3]) \o Range(c[4] + 1, N)

SeqToSet(s) == {s[i] : i \in 1..Len(s)}

\* X[idxx] = 0
ZeroRows(X, idxx) ==
    LET z == SeqToSet(idxx) IN
    Tup([r \in 1..Len(X) |->
        IF (r - 1) \in z
        THEN Tup([c \in 1..Len(X[r]) |-> Num(0)])
        ELSE X[r]])

\* WATCtools.bpf: returns <<x_bpf, X_bpf>>
bpf(x0, band) ==
    LET X_bpf == ZeroRows(ft(x0, None, 0), bpfMask(Shape(x0)[1], band))
    IN  <<ift(X_bpf, None, 0, FALSE), X_bpf>>


\* --------------------------------------------------------------- psf ----
\* Python's a // b for b > 0 (floor division)
FloorDiv(a, b) == IF a >= 0 THEN a \div b ELSE -((-a + b - 1) \div b)

\* Python's s[a:b]
PySlice(s, a, b) ==
    LET L == Len(s)
        Clamp(i) == IF i < 0 THEN (IF L + i < 0 THEN 0 ELSE L + i)
                    ELSE (IF i > L THEN L ELSE i)
    IN  SubSeq(s, Clamp(a) + 1, Clamp(b))

\* triang(w) = numpy.bartlett(w + 2)[1:-1]
triang(w) ==
    Tup([i \in 1..w |-> Rat((w + 1) - Abs(2 * i - (w + 1)), w + 1)])

\* Sidx = [(i, j) for i in range(d) for j in range(i, d)]
RECURSIVE SidxFrom(_, _, _)
SidxFrom(i, j, d) ==
    IF i >= d THEN <<>>
    ELSE IF j >= d THEN SidxFrom(i + 1, i + 1, d)
    ELSE <<<<i, j>>>> \o SidxFrom(i, j + 1, d)

psfSidx(d) == SidxFrom(0, 0, d)

\* didx: the positions (1-based) of the diagonal components in Sidx
psfDidx(d) ==
    {k \in 1..Len(psfSidx(d)) : psfSidx(d)[k][1] = psfSidx(d)[k][2]}

\* X = ft(x)[:N//2+1, :]
psfHalf(x0) == PySlice(ft(x0, None, 0), 0, Shape(x0)[1] \div 2 + 1)

\* the stack of reduced spectral matrices outer(X[i], conj X[i])[Sidx]
psfStack(Xh, d) ==
    LET idx == psfSidx(d)
    IN  Tup([i \in 1..Len(Xh) |->
            Tup([k \in 1..Len(idx) |->
                Canon(CxMul(Xh[i][idx[k][1] + 1],
                            CxConj(Xh[i][idx[k][2] + 1])))])])

\* scipy.signal.convolve2d(S, win.reshape(-1, 1), mode='full'): each column
\* of S convolved with win, M + w - 1 rows
convFull(S, win) ==
    LET M == Len(S)
        w == Len(win)
    IN  IF M = 0 THEN <<>>
        ELSE Tup([t \in 1..(M + w - 1) |->
                Tup([k \in 1..Len(S[1]) |->
                    CxSum(Tup([j \in 1..w |->
                        IF t - j + 1 >= 1 /\ t - j + 1 <= M
                        THEN CxMul(win[j], S[t - j + 1][k])
                        ELSE Num(0)]))])])

\* one pass of Ssmooth: convolve2d(...)[w//2 : -w//2+1, :]
smoothSlice(F, w) == PySlice(F, FloorDiv(w, 2), FloorDiv(-w, 2) + 1)

smoothPass(S, w) == CanonMatrix(smoothSlice(convFull(S, triang(w)), w))

\* Ssmooth(S, w, n, window): the stack after each of the passes 0..n
RECURSIVE smoothRuns(_, _, _)
smoothRuns(S, w, n) ==
    IF n = 0 THEN <<S>>
    ELSE LET h == smoothRuns(S, w, n - 1)
         IN  Append(h, smoothPass(h[Len(h)], w))

Ssmooth(S, w, n) == smoothRuns(S, w, n)[n + 1]

\* trS = sum(S[:, didx].real.T)**2 at one bin
psfTrS(s, d) ==
    LET idx == psfSidx(d)
        t == CxSum(Tup([k \in 1..Len(s) |->
                 IF idx[k][1] = idx[k][2] THEN CxReal(s[k]) ELSE Num(0)]))
    IN  Canon(CxMul(t, t))

\* trS2 = sum of (S*conj(S)*2).real over the components, the diagonal ones
\* halved
psfTrS2(s, d) ==
    LET idx == psfSidx(d)
    IN  Canon(CxSum(Tup([k \in 1..Len(s) |->
            LET q == Canon(CxReal(CxMul(CxMul(s[k], CxConj(s[k])), Num(2))))
            IN  IF idx[k][1] = idx[k][2] THEN CxDiv(q, Num(2)) ELSE q])))

\* P = (d*trS2 - trS)/((d-1)*trS) at one bin
psfEstimate(s, d) ==
    CxDiv(CxSub(CxMul(Num(d), psfTrS2(s, d)), psfTrS(s, d)),
          CxMul(Num(d - 1), psfTrS(s, d)))

\* the last bin forced to zero whatever the parity of N
psfForceLast(Praw, N) ==
    Tup([k \in 1..Len(Praw) |->
        IF k = 1 \/ k = Len(Praw) THEN Num(0) ELSE Praw[k]])

\* P[0] = 0, and P[-1] = 0 when N is even
psfForce(Praw, N) ==
    Tup([k \in 1..Len(Praw) |->
        IF k = 1 THEN Num(0)
        ELSE IF N % 2 = 0 /\ k = Len(Praw) THEN Num(0)
        ELSE Praw[k]])

\* X *= tile(P**p, d).reshape(X.shape[::-1]).T
psfReweight(Xh, Pf, p) ==
    Tup([k \in 1..Len(Xh) |->
        Tup([c \in 1..Len(Xh[k]) |->
            Canon(CxMul(Xh[k][c], Canon(CxPow(Pf[k], p))))])])

\* Python's list(range(a, 0, -1)) as a sequence: a, a-1, ..., 1
RangeDown(a) == Tup([i \in 1..(IF a > 0 THEN a ELSE 0) |-> a - i + 1])

\* the mirror taken from bin N//2 down whatever the parity of N
psfRebuildFromTop(Xw, N) ==
    Tup([i \in 1..(N \div 2 + 1) |-> Xw[i]])
        \o Tup([i \in 1..Len(RangeDown(N \div 2)) |->
               Tup([c \in 1..Len(Xw[RangeDown(N \div 2)[i] + 1]) |->
                   CxConj(Xw[RangeDown(N \div 2)[i] + 1][c])])])

\* vstack((X[0..N//2], X[N//2-fudgeIdx .. 1].conj()))
psfRebuild(Xw, N) ==
    LET fudgeIdx == IF N % 2 = 1 THEN 0 ELSE 1
        top == Tup([i \in 1..(N \div 2 + 1) |-> Xw[i]])
        dn == RangeDown(N \div 2 - fudgeIdx)
    IN  top \o Tup([i \in 1..Len(dn) |->
                   Tup([c \in 1..Len(Xw[dn[i] + 1]) |-> CxConj(Xw[dn[i] + 1][c])])])

\* WATCtools.psf with the default window.  P[0] = 0 on an empty estimate
\* raises IndexError: the call returns nothing.
psf(x0, p, w, n) ==
    LET N == Shape(x0)[1]
        d == Shape(x0)[2]
        Xh == psfHalf(x0)
        runs == smoothRuns(psfStack(Xh, d), w, n)
        S == runs[n + 1]
        lens == Tup([k \in 1..Len(runs) |-> Len(runs[k])])
        Praw == Tup([k \in 1..Len(S) |-> psfEstimate(S[k], d)])
    IN  IF Len(Praw) = 0
        THEN [status |-> "raised", lens |-> lens]
        ELSE LET Pf == psfForce(Praw, N)
                 full == psfRebuild(psfReweight(Xh, Pf, p), N)
             IN  [status |-> "ok",
                  x_psf |-> ift(full, None, 0, FALSE),
                  P |-> Pf,
                  Praw |-> Praw,
                  spectrum |-> CanonMatrix(full),
                  lens |-> lens]

\* ----------------------------------------------------------- fk_freq ----
\* the mean of a sequence of numbers
Mean(v) == CxDiv(CxSum(v), Num(Len(v)))

\* v - numpy.mean(v)
Demean(v) ==
    LET mu == Mean(v) IN Tup([i \in 1..Len(v) |-> Canon(CxSub(v[i], mu))])

\* lines 43-45: rij = np.transpose(rij) is a view of the caller's array, and
\* rij[:, 0] and rij[:, 1] (the caller's rows 0 and 1) are re-centred in it
fkRecentre(r, rows) ==
    Tup([k \in 1..Len(r) |-> IF k <= rows THEN Demean(r[k]) ELSE r[k]])

\* line 91, for every trace jj: data[:, jj] = data[:, jj] - mean
fkDemeanData(data) ==
    Transpose(Tup([c \in 1..Shape(data)[2] |-> Demean(Transpose(data)[c])]))

\* nfft = 2 ** ceil(log2(m))
RECURSIVE NextPow2(_, _)
NextPow2(m, q) == IF q >= m THEN q ELSE NextPow2(m, 2 * q)

fkNfft(m) == NextPow2(m, 1)

\* int(f / deltaf + 0.5) with deltaf = fs / nfft, for f >= 0
fkBin(f, fs, nfft) == (2 * f * nfft + fs) \div (2 * fs)

fkNlow(fmin, fs, nfft) ==
    IF fkBin(fmin, fs, nfft) > 1 THEN fkBin(fmin, fs, nfft) ELSE 1

fkNhigh(fmax, fs, nfft) ==
    IF fkBin(fmax, fs, nfft) < nfft \div 2 - 1
    THEN fkBin(fmax, fs, nfft) ELSE nfft \div 2 - 1

fkNf(fmin, fmax, fs, nfft) ==
    fkNhigh(fmax, fs, nfft) - fkNlow(fmin, fs, nfft) + 1

\* numpy.linspace(fmin, fmax, nf)
fkFreqrange(fmin, fmax, nf) ==
    Tup([i \in 1..(IF nf > 0 THEN nf ELSE 0) |->
        IF nf = 1 THEN Num(fmin)
        ELSE Canon(CxAdd(Num(fmin), Rat((i - 1) * (fmax - fmin), nf - 1)))])

IsZeroMatrix(m) ==
    \A r \in 1..Len(m) : \A c \in 1..Len(m[r]) : m[r][c] = Num(0)

\* The outcome of fk_freq for caller arrays data (m, nsta) and r (d, n).
\* The slowness and azimuth grids, the taper and the spectral coefficients
\* are trigonometric and are not computed: of the power map the model keeps
\* its shape and whether it is 0/0 in every cell (no retained bin, or
\* de-meaned traces that are identically zero, so that pow_mapb is zero).
fk_freq(data, fs, r, fmin, fmax, nvel, ntheta) ==
    LET m == Shape(data)[1]
        nfft == fkNfft(m)
        nlow == fkNlow(fmin, fs, nfft)
        nhigh == fkNhigh(fmax, fs, nfft)
        nf == fkNf(fmin, fmax, fs, nfft)
        base == [nfft |-> nfft, nlow |-> nlow, nhigh |-> nhigh, nf |-> nf]
    IN  IF Len(r) < 2
        THEN \* line 45: rij[:, 1] does not exist
             base @@ [status |-> "IndexError", rij |-> fkRecentre(r, 1),
                      data |-> data]
        ELSE IF nf < 0
        THEN \* line 89: np.empty((nsta, nf)) with a negative dimension
             base @@ [status |-> "ValueError", rij |-> fkRecentre(r, 2),
                      data |-> data]
        ELSE base @@ [status |-> "returned", rij |-> fkRecentre(r, 2),
                      data |-> fkDemeanData(data),
                      freqrange |-> fkFreqrange(fmin, fmax, nf),
                      bins |-> Range(nlow, nlow + nf),
                      shape |-> <<nvel, ntheta>>,
                      undefined |-> (nf = 0 \/ IsZeroMatrix(fkDemeanData(data)))]

\* ------------------------------------------------------------- state ----
VARIABLES
    pc,     \* "ready", or the routine that returned last
    x,      \* the caller's time-series matrix (x of ft, bpf, psf; data of fk_freq)
    rij,    \* the caller's sensor-coordinate matrix
    args,   \* the arguments of the last call, other than the arrays
    ret     \* what the last call returned

vars == <<pc, x, rij, args, ret>>

MatricesOf(N, d, vals) == [1..N -> [1..d -> {Num(v) : v \in vals}]]

SeriesShapes ==
    {s \in SampleCounts \X ChannelCounts : s[1] * s[2] <= MaxCells}

TimeSeries == UNION {MatricesOf(s[1], s[2], SampleValues) : s \in SeriesShapes}

Geometries ==
    UNION {MatricesOf(d, n, 0..MaxCoord) : d \in CoordDims, n \in 1..MaxSensors}

\* a fixed geometry of n sensors: northings 0, 1, 2, ..., eastings 0, 1, 0, ...
DefaultGeometry(n) ==
    <<Tup([c \in 1..n |-> Num(c - 1)]), Tup([c \in 1..n |-> Num((c - 1) % 2)])>>

\* a fixed series of 4 samples in n channels
DefaultSeries(n) ==
    Tup([r \in 1..4 |-> Tup([c \in 1..n |-> Num((r * c) % 3)])])

NoCall == [op |-> "none"]

InitSignal ==
    /\ x \in TimeSeries
    /\ rij = DefaultGeometry(Shape(x)[2])

InitGeometry ==
    /\ rij \in Geometries
    /\ x = DefaultSeries(Shape(rij)[2])

InitCall ==
    /\ pc = "ready"
    /\ args = NoCall
    /\ ret = NoCall

Init == InitCall /\ (InitSignal \/ InitGeometry)

\* every time series, with a fixed geometry
InitSeries == InitCall /\ InitSignal

\* every geometry, with a fixed time series
InitArray == InitCall /\ InitGeometry

\* X = ft(x, n, axis)
Call_ft ==
    /\ pc = "ready"
    /\ \E n \in {None} \cup SampleCounts, axis \in {0, 1} :
        /\ args' = [n |-> n, axis |-> axis]
        /\ ret' = [X |-> ft(x, n, axis)]
    /\ pc' = "ft"
    /\ UNCHANGED <<x, rij>>

\* y = ift(X, axis=axis) on the spectrum ft returned
Call_ift ==
    /\ pc = "ft"
    /\ \E allowComplex \in BOOLEAN :
        /\ args' = [n |-> args.n, axis |-> args.axis, allowComplex |-> allowComplex]
        /\ ret' = [X |-> ret.X, y |-> ift(ret.X, None, args.axis, allowComplex)]
    /\ pc' = "ift"
    /\ UNCHANGED <<x, rij>>

\* x_bpf, X_bpf = bpf(x, band)
Call_bpf ==
    /\ pc = "ready"
    /\ \E b0 \in 0..BandDen, b1 \in 0..BandDen :
        /\ args' = [band |-> <<b0, b1>>]
        /\ LET r == bpf(x, <<b0, b1>>)
           IN  ret' = [x_bpf |-> r[1], X_bpf |-> r[2],
                       idxx |-> bpfMask(Shape(x)[1], <<b0, b1>>)]
    /\ pc' = "bpf"
    /\ UNCHANGED <<x, rij>>

\* x_psf, P = psf(x, p, w, n)
Call_psf ==
    /\ pc = "ready"
    /\ \E p \in Contrasts, w \in 1..MaxWidth, n \in 0..MaxPasses :
        /\ args' = [p |-> p, w |-> w, n |-> n]
        /\ ret' = psf(x, p, w, n)
    /\ pc' = "psf"
    /\ UNCHANGED <<x, rij>>

\* xij = co_array(rij)
Call_co_array ==
    /\ pc = "ready"
    /\ args' = NoCall
    /\ ret' = [xij |-> co_array(rij)]
    /\ pc' = "co_array"
    /\ UNCHANGED <<x, rij>>

\* pow_map = fk_freq(x, fs, rij, vmin, vmax, fmin, fmax, nvel, ntheta); the
\* caller's arrays are written by the call
Call_fk_freq ==
    /\ pc = "ready"
    /\ \E fs \in SampleRates, fmin \in 0..MaxFreq, fmax \in 0..MaxFreq,
          nvel \in 1..MaxGrid, ntheta \in 1..MaxGrid :
        LET r == fk_freq(x, fs, rij, fmin, fmax, nvel, ntheta)
        IN  /\ args' = [fs |-> fs, fmin |-> fmin, fmax |-> fmax,
                        nvel |-> nvel, ntheta |-> ntheta]
            /\ ret' = r
            /\ x' = r.data
            /\ rij' = r.rij
    /\ pc' = "fk_freq"

Next ==
    \/ Call_ft
    \/ Call_ift
    \/ Call_bpf
    \/ Call_psf
    \/ Call_co_array
    \/ Call_fk_freq

\* every routine, on every input
Spec == Init /\ [][Next]_vars

\* the transform pair on every time series
NextTransform ==
    \/ Call_ft
    \/ Call_ift

SpecTransform == InitSeries /\ [][NextTransform]_vars

\* the bandpass filter on every time series
NextBpf == Call_bpf

SpecBpf == InitSeries /\ [][NextBpf]_vars

\* the pure-state filter on every time series
NextPsf == Call_psf

SpecPsf == InitSeries /\ [][NextPsf]_vars

\* the co-array of every geometry
NextCoArray == Call_co_array

SpecCoArray == InitArray /\ [][NextCoArray]_vars

\* the beamformer on every time series and every geometry
NextFk == Call_fk_freq

SpecFk == Init /\ [][NextFk]_vars

\* ------------------------------------------------------------ claims ----
ZeroRow(n) == Tup([c \in 1..n |-> Num(0)])

\* a canonical number that is real and lies in [0, 1]
InUnit(z) == IsRational(z) /\ 0 <= z[1] /\ z[1] <= z[5]

\* the bins bpf left alone, from the mask it returned
BinsKept == (0..(Shape(x)[1] - 1)) \ SeqToSet(ret.idxx)

\* the spectrum bpf returned is ft(x) on the bins of K and zero elsewhere
SpectrumKeeps(K) ==
    \A k \in 0..(Shape(x)[1] - 1) :
        ret.X_bpf[k + 1] = IF k \in K THEN ft(x, None, 0)[k + 1]
                           ELSE ZeroRow(Shape(x)[2])

\* the number of pairs that precede (i, j), i < j, in lexicographic order
PairRank(i, j, n) == i * n - (i * (i + 1)) \div 2 + (j - i - 1)

\* C1: with no length argument, ift(ft(x)) = x for every real x, and the
\* inverse multiplies by the count the forward transform divided by, along
\* the same axis
C1_RoundTrip ==
    (pc = "ift" /\ args.n = None) =>
        /\ ret.y = x
        /\ iftFactor(ret.X, None, args.axis) = ftDivisor(x, args.n, args.axis)

C1_Witness ==
    /\ pc = "ift"
    /\ args.n = None
    /\ args.axis = 1
    /\ ~args.allowComplex
    /\ Shape(x) = <<2, 3>>
    /\ \E c \in 1..3 : ~IsRational(ret.X[1][c])
    /\ ret.y = x

\* C2: for n >= 2 sensors co_array(rij) has n(n-1)/2 columns, and the column
\* of the pair (i, j), i < j, taken in lexicographic order, is
\* rij[:, i] - rij[:, j]
C2_CoArray ==
    (pc = "co_array" /\ Shape(rij)[2] >= 2) =>
        LET d == Shape(rij)[1]
            n == Shape(rij)[2]
        IN  /\ Shape(ret.xij) = <<d, (n * (n - 1)) \div 2>>
            /\ \A k \in 1..d : Len(ret.xij[k]) = (n * (n - 1)) \div 2
            /\ \A i \in 0..(n - 1), j \in 0..(n - 1) :
                 i < j =>
                   \A k \in 1..d :
                     ret.xij[k][PairRank(i, j, n) + 1]
                       = Canon(CxSub(rij[k][i + 1], rij[k][j + 1]))

C2_Witness ==
    /\ pc = "co_array"
    /\ rij = <<<<Num(0), Num(1), Num(0)>>, <<Num(1), Num(1), Num(0)>>>>
    /\ ret.xij = <<<<Num(-1), Num(0), Num(1)>>, <<Num(0), Num(1), Num(1)>>>>

\* C3: the bins bpf does not zero are the pass-band b0..b1 and its mirror
\* N-b1..N-b0 within 0..N-1, and that set is closed under k -> (N-k) mod N
C3_PassBand ==
    pc = "bpf" =>
        LET N == Shape(x)[1]
            b == bpfBand(N, args.band)
        IN  /\ BinsKept = {k \in 0..(N - 1) :
                             \/ (b[1] <= k /\ k <= b[2])
                             \/ (N - b[2] <= k /\ k <= N - b[1])}
            /\ \A k \in BinsKept : ((N - k) % N) \in BinsKept
            /\ SpectrumKeeps(BinsKept)

C3_Witness ==
    /\ pc = "bpf"
    /\ Shape(x) = <<6, 1>>
    /\ args.band = <<2, 1>>
    /\ bpfBand(6, args.band) = <<1, 2>>
    /\ BinsKept = {1, 2, 4, 5}
    /\ ft(x, None, 0)[1] # ZeroRow(1)
    /\ ft(x, None, 0)[4] # ZeroRow(1)
    /\ ret.X_bpf[2] # ZeroRow(1)

\* C4: every value of the coherence estimate psf returns lies in [0, 1]
C4_UnitInterval ==
    (pc = "psf" /\ ret.status = "ok") =>
        \A k \in 1..Len(ret.P) : InUnit(ret.P[k])

\* C5: a call of fk_freq leaves the caller's data and rij as they were
C5_CallerArrays ==
    [][pc' = "fk_freq" => (x' = x /\ rij' = rij)]_vars

\* C6: ft divides every component by the sample count of the transformed
\* axis after truncation or padding, that is by the length argument
C6_PaddedCount ==
    pc = "ft" =>
        ret.X = MapMatrix(fft(x, args.n, args.axis),
                          LAMBDA z : CxDiv(z,
                              Num(Shape(fft(x, args.n, args.axis))[args.axis + 1])))

\* C7: with band [0, 1] bpf zeroes no bin: the spectrum it returns is ft(x)
\* and the series it returns is x
C7_FullBand ==
    (pc = "bpf" /\ SortBand(args.band) = <<0, BandDen>>) =>
        /\ ret.idxx = <<>>
        /\ ret.X_bpf = ft(x, None, 0)
        /\ ret.x_bpf = x

C7_Witness ==
    /\ pc = "bpf"
    /\ args.band = <<0, BandDen>>
    /\ Shape(x) = <<3, 2>>
    /\ \E c \in 1..2 : ~IsRational(ret.X_bpf[2][c])
    /\ ret.idxx = <<>>
    /\ ret.x_bpf = x

\* the bins at the top of the spectrum: the Nyquist bin for even N, the two
\* bins either side of N/2 for odd N
TopBins(N) ==
    IF N % 2 = 0 THEN {N \div 2}
    ELSE {(N - 1) \div 2, (N + 1) \div 2} \cap (0..(N - 1))

\* C8, as the code has it: with band [1, 1] bpf keeps the top bins only (the
\* Nyquist bin N/2 for even N, the bins (N-1)/2 and (N+1)/2 for odd N), so
\* the DC bin is zeroed whenever N >= 2
C8_TopBand ==
    (pc = "bpf" /\ args.band = <<BandDen, BandDen>>) =>
        LET N == Shape(x)[1]
        IN  /\ BinsKept = TopBins(N)
            /\ SpectrumKeeps(TopBins(N))
            /\ N >= 2 => ret.X_bpf[1] = ZeroRow(Shape(x)[2])

C8_Witness ==
    /\ pc = "bpf"
    /\ args.band = <<BandDen, BandDen>>
    /\ Shape(x) = <<4, 2>>
    /\ BinsKept = {2}
    /\ ft(x, None, 0)[1] # ZeroRow(2)
    /\ ret.X_bpf[1] = ZeroRow(2)
    /\ ret.X_bpf[3] # ZeroRow(2)

\* C8, as stated: with band [1, 1] bpf zeroes every bin except the DC
\* bin, which it keeps
C8_OnlyDC ==
    (pc = "bpf" /\ args.band = <<BandDen, BandDen>>) =>
        /\ BinsKept = {0}
        /\ SpectrumKeeps({0})

\* C9: the estimate psf returns has P[0] = 0; for even N its last entry
\* P[N/2] is 0 as well; every other entry is the estimator's value
C9_ForcedBins ==
    (pc = "psf" /\ ret.status = "ok") =>
        LET N == Shape(x)[1]
        IN  /\ ret.P[1] = Num(0)
            /\ N % 2 = 0 => (Len(ret.P) = N \div 2 + 1
                             /\ ret.P[N \div 2 + 1] = Num(0))
            /\ \A k \in 2..Len(ret.P) :
                 (N % 2 = 1 \/ k # Len(ret.P)) => ret.P[k] = ret.Praw[k]

C9_Witness ==
    /\ pc = "psf"
    /\ ret.status = "ok"
    /\ Shape(x) = <<4, 2>>
    /\ args.n = 1
    /\ Len(ret.P) = 3
    /\ IsFinite(ret.Praw[3]) /\ ret.Praw[3] # Num(0)
    /\ ret.P[3] = Num(0)
    /\ IsFinite(ret.Praw[2]) /\ ret.Praw[2] # Num(0)
    /\ ret.P[2] = ret.Praw[2]

\* C10: when the clamped bin range is empty (nf <= 0) fk_freq fails with
\* EmptyFrequencyBand and returns no power map
C10_EmptyBand ==
    (pc = "fk_freq" /\ ret.nf <= 0) => ret.status = "EmptyFrequencyBand"

\* C11: when some bin of the smoothed spectral matrix has zero trace, or the
\* divisor (d-1)*trS is zero otherwise, psf reports NumericDegeneracy: it
\* never returns an estimate or a filtered series holding an undefined value
C11_Degeneracy ==
    pc = "psf" =>
        \/ ret.status = "NumericDegeneracy"
        \/ ret.status = "raised"
        \/ /\ \A k \in 1..Len(ret.Praw) : IsFinite(ret.Praw[k])
           /\ \A k \in 1..Len(ret.P) : IsFinite(ret.P[k])
           /\ \A r \in 1..Len(ret.x_psf) :
                \A c \in 1..Len(ret.x_psf[r]) : IsFinite(ret.x_psf[r][c])

\* C12: the spectrum psf rebuilds before the inverse transform has N rows,
\* row N-k is the complex conjugate of row k for 1 <= k <= N-1, and for
\* even N the Nyquist row N/2 is there once
C12_HermitianRebuild ==
    (pc = "psf" /\ ret.status = "ok") =>
        LET N == Shape(x)[1]
        IN  /\ Len(ret.spectrum) = N
            /\ \A k \in 1..(N - 1) :
                 ret.spectrum[N - k + 1] =
                     Tup([c \in 1..Shape(x)[2] |-> CxConj(ret.spectrum[k + 1][c])])
            /\ \A k \in 0..(N \div 2) :
                 ret.spectrum[k + 1] =
                     Tup([c \in 1..Shape(x)[2] |->
                         Canon(CxMul(psfHalf(x)[k + 1][c],
                                     CxPow(ret.P[k + 1], args.p)))])

C12_Witness ==
    /\ pc = "psf"
    /\ ret.status = "ok"
    /\ Shape(x) = <<4, 2>>
    /\ args.n = 1
    /\ Len(ret.spectrum) = 4
    /\ IsFinite(ret.spectrum[2][1])
    /\ ~IsRational(ret.spectrum[2][1])
    /\ ret.spectrum[4][1] = CxConj(ret.spectrum[2][1])
    /\ ret.spectrum[4][1] # ret.spectrum[2][1]

\* C13: for every width w >= 1 and every number of passes n >= 0 each
\* smoothing pass keeps the number of bins, so psf returns an estimate of
\* N//2 + 1 entries
C13_BinCount ==
    pc = "psf" =>
        /\ \A k \in 1..Len(ret.lens) : ret.lens[k] = Shape(x)[1] \div 2 + 1
        /\ ret.status = "ok"
        /\ Len(ret.P) = Shape(x)[1] \div 2 + 1

\* C14: the frequency in the steering phasor of every retained bin k of
\* fk_freq is the bin's centre frequency k*fs/nfft
C14_BinCentre ==
    (pc = "fk_freq" /\ ret.status = "returned") =>
        /\ Len(ret.freqrange) = Len(ret.bins)
        /\ \A i \in 1..Len(ret.bins) :
             ret.freqrange[i] = Rat(ret.bins[i] * args.fs, ret.nfft)

=============================================================================
